---- MODULE Spec2Model ----
(***************************************************************************)
(* Title normalization and validation pipeline of TituloGo                 *)
(* (src/appClaudelast.py): the text normalizer, the taxonomy matcher, the  *)
(* quick validator, the two-agent validation protocol and the batch run.   *)
(*                                                                         *)
(* A Python str is a sequence of one-character strings.  A JSON value is a *)
(* record [t, v]: t is its type tag and v its payload (a character         *)
(* sequence for "str", a sequence of issues for "list", <<>> otherwise).   *)
(***************************************************************************)
EXTENDS Integers, Sequences, FiniteSets, TLC

(***************************************************************************)
(* Characters                                                              *)
(***************************************************************************)
LowerLetters ==
  <<"a","b","c","d","e","f","g","h","i","j","k","l","m","n","o","p","q","r",
    "s","t","u","v","w","x","y","z","á","é","í","ó","ú","ñ","ü">>

UpperLetters ==
  <<"A","B","C","D","E","F","G","H","I","J","K","L","M","N","O","P","Q","R",
    "S","T","U","V","W","X","Y","Z","Á","É","Í","Ó","Ú","Ñ","Ü">>

Range(f) == { f[i] : i \in DOMAIN f }

LowerSet == Range(LowerLetters)

UpperSet == Range(UpperLetters)

Digits == {"0","1","2","3","4","5","6","7","8","9"}

IndexOf(seq, c) == CHOOSE i \in DOMAIN seq : seq[i] = c

\* str.lower() / str.upper() on one character
LowerChar(c) == IF c \in UpperSet THEN LowerLetters[IndexOf(UpperLetters, c)] ELSE c

UpperChar(c) == IF c \in LowerSet THEN UpperLetters[IndexOf(LowerLetters, c)] ELSE c

\* \s of the re module, \d and \w
IsSpace(c) == c \in {" ", "\t"}

IsDigit(c) == c \in Digits

IsWordChar(c) == c \in LowerSet \cup UpperSet \cup Digits \cup {"_"}

(***************************************************************************)
(* Python str methods                                                      *)
(***************************************************************************)
lower(s) == [i \in 1..Len(s) |-> LowerChar(s[i])]

upper(s) == [i \in 1..Len(s) |-> UpperChar(s[i])]

\* str.isupper(): at least one cased character and no lower-case one
isupper(s) ==
  /\ \E i \in 1..Len(s) : s[i] \in UpperSet
  /\ \A i \in 1..Len(s) : s[i] \notin LowerSet

\* s[from:] with a 1-based index
Drop(s, from) == SubSeq(s, from, Len(s))

\* s.startswith(sub, i-1)
MatchAt(s, i, sub) ==
  /\ i >= 1
  /\ i + Len(sub) - 1 <= Len(s)
  /\ \A k \in 1..Len(sub) : s[i + k - 1] = sub[k]

\* sub in s
Contains(s, sub) == \E i \in 1..(Len(s) - Len(sub) + 1) : MatchAt(s, i, sub)

RECURSIVE ReplaceFrom(_, _, _, _)
ReplaceFrom(s, i, old, new) ==
  IF i > Len(s) THEN <<>>
  ELSE IF MatchAt(s, i, old) THEN new \o ReplaceFrom(s, i + Len(old), old, new)
  ELSE <<s[i]>> \o ReplaceFrom(s, i + 1, old, new)

\* s.replace(old, new) for a non-empty old
replace(s, old, new) == IF old = <<>> THEN s ELSE ReplaceFrom(s, 1, old, new)

RECURSIVE lstrip(_, _)
lstrip(s, chars) ==
  IF s # <<>> /\ Head(s) \in chars THEN lstrip(Tail(s), chars) ELSE s

RECURSIVE rstrip(_, _)
rstrip(s, chars) ==
  IF s # <<>> /\ s[Len(s)] \in chars THEN rstrip(SubSeq(s, 1, Len(s) - 1), chars) ELSE s

Whitespace == {" ", "\t"}

\* s.strip()
strip(s) == rstrip(lstrip(s, Whitespace), Whitespace)

\* index of the first whitespace character of s at or after i, else Len(s)+1
RECURSIVE TokenEnd(_, _)
TokenEnd(s, i) ==
  IF i > Len(s) \/ IsSpace(s[i]) THEN i ELSE TokenEnd(s, i + 1)

RECURSIVE SplitFrom(_, _)
SplitFrom(s, i) ==
  IF i > Len(s) THEN <<>>
  ELSE IF IsSpace(s[i]) THEN SplitFrom(s, i + 1)
  ELSE <<SubSeq(s, i, TokenEnd(s, i) - 1)>> \o SplitFrom(s, TokenEnd(s, i))

\* s.split(): the whitespace-delimited tokens
split(s) == SplitFrom(s, 1)

RECURSIVE join(_)
\* " ".join(tokens)
join(tokens) ==
  IF tokens = <<>> THEN <<>>
  ELSE IF Len(tokens) = 1 THEN tokens[1]
  ELSE tokens[1] \o <<" ">> \o join(Tail(tokens))

\* " ".join(s.split())
collapse_whitespace(s) ==
  IF /\ \A i \in 1..Len(s) : s[i] = " " => (i > 1 /\ i < Len(s) /\ s[i + 1] # " ")
     /\ \A i \in 1..Len(s) : s[i] # "\t"
  THEN s
  ELSE join(split(s))

(***************************************************************************)
(* Regular expressions of the normalizer                                   *)
(***************************************************************************)
WordAt(s, k) == k >= 1 /\ k <= Len(s) /\ IsWordChar(s[k])

\* \b between s[p-1] and s[p]
Boundary(s, p) == WordAt(s, p - 1) # WordAt(s, p)

MatchAtIgnoreCase(s, i, sub) ==
  /\ i >= 1
  /\ i + Len(sub) - 1 <= Len(s)
  /\ \A k \in 1..Len(sub) : LowerChar(s[i + k - 1]) = LowerChar(sub[k])

\* Length of the match of \b<base>(s)?\b (optS) or \b<base>\b at i under
\* re.IGNORECASE, 0 when there is none.  (s)? is greedy: the longer match
\* is tried first.
WordMatchLen(s, i, base, optS) ==
  LET e == i + Len(base) IN
  IF ~(MatchAtIgnoreCase(s, i, base) /\ Boundary(s, i)) THEN 0
  ELSE IF optS /\ e <= Len(s) /\ LowerChar(s[e]) = "s" /\ Boundary(s, e + 1)
       THEN Len(base) + 1
  ELSE IF Boundary(s, e) THEN Len(base)
  ELSE 0

RECURSIVE WordSubFrom(_, _, _, _, _)
WordSubFrom(s, i, base, optS, repl) ==
  IF i > Len(s) THEN <<>>
  ELSE LET n == WordMatchLen(s, i, base, optS) IN
       IF n > 0 THEN repl \o WordSubFrom(s, i + n, base, optS, repl)
       ELSE <<s[i]>> \o WordSubFrom(s, i + 1, base, optS, repl)

\* re.compile(rf"\b{re.escape(base)}(s)?\b", re.IGNORECASE).sub(repl, s)
WordSub(s, base, optS, repl) ==
  IF \A i \in 1..Len(s) : WordMatchLen(s, i, base, optS) = 0 THEN s
  ELSE WordSubFrom(s, 1, base, optS, repl)

(***************************************************************************)
(* Text normalizer                                                         *)
(***************************************************************************)
RECURSIVE ApplyFrom(_, _, _)
ApplyFrom(out, transformations, k) ==
  IF k > Len(transformations) THEN out
  ELSE LET base == strip(transformations[k][1])
           replacement == transformations[k][2] IN
       IF base = <<>> THEN ApplyFrom(out, transformations, k + 1)
       ELSE ApplyFrom(WordSub(out, base, TRUE, replacement), transformations, k + 1)

\* transformations: the memory's (original, replacement) pairs in insertion order
apply_transformations(text, transformations) ==
  IF text = <<>> THEN text
  ELSE collapse_whitespace(ApplyFrom(text, transformations, 1))

T_PVC == <<"P","V","C">>
T_CPVC == <<"C","P","V","C">>
T_AC == <<"A","C">>
T_DC == <<"D","C">>
T_LED == <<"L","E","D">>
T_RGB == <<"R","G","B">>
T_IP == <<"I","P">>
T_UV == <<"U","V">>
T_USB == <<"U","S","B">>
T_HDMI == <<"H","D","M","I">>
T_mm == <<"m","m">>
T_cm == <<"c","m">>
T_m == <<"m">>
T_plg == <<"p","l","g">>

ACRONYMS_OK ==
  { T_PVC, T_CPVC, T_AC, T_DC, T_LED, T_RGB, T_IP, T_UV, T_USB, T_HDMI,
    T_mm, T_cm, T_m, T_plg }

_cap_first(word) ==
  IF word = <<>> THEN word
  ELSE <<UpperChar(word[1])>> \o lower(Tail(word))

StripChars == {".", ",", ";", ":", "(", ")", "[", "]", "{", "}", "-", "/"}

\* One token of de_shout.  suffix_len is len(stripped) - len(bare) with
\* bare = stripped, as the source computes it.
de_shout_token(w) ==
  LET stripped_left == lstrip(w, StripChars)
      stripped == rstrip(stripped_left, StripChars)
      bare == stripped
      prefix_len == Len(w) - Len(stripped_left)
      suffix_len == Len(stripped) - Len(bare)
      prefix == SubSeq(w, 1, prefix_len)
      suffix == IF suffix_len > 0 THEN Drop(w, Len(w) - suffix_len + 1) ELSE <<>>
  IN IF Len(bare) > 1 /\ isupper(bare) /\ bare \notin ACRONYMS_OK
     THEN prefix \o _cap_first(bare) \o suffix
     ELSE w

de_shout(text) ==
  LET ws == split(text) IN join([k \in 1..Len(ws) |-> de_shout_token(ws[k])])

remove_brand_occurrences(text, brand) ==
  IF brand = <<>> \/ text = <<>> THEN text
  ELSE LET t1 == replace(text, brand, <<>>)
           t2 == replace(t1, upper(brand), <<>>)
           t3 == replace(t2, lower(brand), <<>>)
           t4 == replace(t3, _cap_first(lower(brand)), <<>>)
       IN strip(collapse_whitespace(t4))

FORBIDDEN_TECH_TERMS ==
  << <<"p","e","n","e","t","r","a","n","t","e">>,
     <<"h","i","d","r","á","u","l","i","c","o">>,
     <<"h","i","d","r","a","u","l","i","c","o">>,
     <<"n","e","u","m","á","t","i","c","o">>,
     <<"n","e","u","m","a","t","i","c","o">>,
     <<"a","m","o","r","t","i","g","u","a","d","o","r">>,
     <<"d","i","e","l","é","c","t","r","i","c","o">>,
     <<"d","i","e","l","e","k","t","r","i","c","o">>,
     <<"e","p","ó","x","i","c","o">>,
     <<"e","p","o","x","i","c","o">>,
     <<"e","p","ó","x","i","c","a">>,
     <<"e","p","o","x","i","c","a">>,
     <<"a","n","t","i","g","r","i","p","a","n","t","e">>,
     <<"d","i","e","l","é","c","t","r","i","c","a">>,
     <<"d","i","e","l","e","k","t","r","i","c","a">>
  >>

RECURSIVE ForbiddenFrom(_, _)
ForbiddenFrom(out, k) ==
  IF k > Len(FORBIDDEN_TECH_TERMS) THEN out
  ELSE ForbiddenFrom(WordSub(out, FORBIDDEN_TECH_TERMS[k], FALSE, <<>>), k + 1)

remove_forbidden_terms(text) ==
  IF text = <<>> THEN text ELSE collapse_whitespace(ForbiddenFrom(text, 1))

\* The patterns r"\s*para\s+<word>...$": each word is the set of spellings its
\* character class admits, compared under re.IGNORECASE.
GENERIC_PARA_PATTERNS ==
  << << { <<"p","a","r","a">> }, { <<"p","l","o","m","e","r","i","a">>, <<"p","l","o","m","e","r","í","a">> } >>,
     << { <<"p","a","r","a">> }, { <<"t","u","b","e","r","i","a">>, <<"t","u","b","e","r","í","a">> } >>,
     << { <<"p","a","r","a">> }, { <<"f","e","r","r","e","t","e","r","i","a">>, <<"f","e","r","r","e","t","e","r","í","a">> } >>,
     << { <<"p","a","r","a">> }, { <<"c","o","n","s","t","r","u","c","c","i","o","n">>, <<"c","o","n","s","t","r","u","c","c","i","ó","n">> } >>,
     << { <<"p","a","r","a">> }, { <<"e","l">> }, { <<"h","o","g","a","r">> } >>,
     << { <<"p","a","r","a">> }, { <<"h","o","g","a","r">> } >>
  >>

\* The p <= pos with s[p+1..pos] all whitespace and s[p] not whitespace
RECURSIVE SkipSpaceBack(_, _)
SkipSpaceBack(s, pos) ==
  IF pos >= 1 /\ IsSpace(s[pos]) THEN SkipSpaceBack(s, pos - 1) ELSE pos

EndsAtIgnoreCase(s, pos, sub) ==
  pos - Len(sub) >= 0 /\ MatchAtIgnoreCase(s, pos - Len(sub) + 1, sub)

\* Words 1..k of pat match s so that word k ends at pos: the length of the
\* text before the leftmost match of the pattern, -1 when there is no match.
RECURSIVE TailMatch(_, _, _, _)
TailMatch(s, pos, pat, k) ==
  IF k = 0 THEN SkipSpaceBack(s, pos)
  ELSE IF \E a \in pat[k] : EndsAtIgnoreCase(s, pos, a)
       THEN LET a == CHOOSE x \in pat[k] : EndsAtIgnoreCase(s, pos, x)
                start == pos - Len(a)
                q == SkipSpaceBack(s, start)
            IN IF k = 1 THEN TailMatch(s, start, pat, 0)
               ELSE IF q < start THEN TailMatch(s, q, pat, k - 1)
               ELSE -1
       ELSE -1

\* re.sub(pattern, "", out, flags=re.IGNORECASE) for a pattern anchored by $
TailSub(out, pat) ==
  LET keep == TailMatch(out, Len(out), pat, Len(pat)) IN
  IF keep >= 0 THEN SubSeq(out, 1, keep) ELSE out

RECURSIVE GenericFrom(_, _)
GenericFrom(out, k) ==
  IF k > Len(GENERIC_PARA_PATTERNS) THEN out
  ELSE GenericFrom(TailSub(out, GENERIC_PARA_PATTERNS[k]), k + 1)

remove_generic_para_phrases(text) ==
  IF text = <<>> THEN text ELSE collapse_whitespace(GenericFrom(text, 1))

\* Mutant: the generic phrases are removed before the forbidden terms
NormalizeTitle_GenericFirst(t, transformations, brand) ==
  LET t1 == apply_transformations(t, transformations)
      t2 == remove_brand_occurrences(t1, brand)
      t3 == de_shout(t2)
      t4 == remove_generic_para_phrases(t3)
      t5 == remove_forbidden_terms(t4)
  IN collapse_whitespace(t5)

\* Lines 525-545: the six steps on one field of a returned triple
NormalizeTitle(t, transformations, brand) ==
  LET t1 == apply_transformations(t, transformations)
      t2 == remove_brand_occurrences(t1, brand)
      t3 == de_shout(t2)
      t4 == remove_forbidden_terms(t3)
      t5 == remove_generic_para_phrases(t4)
  IN collapse_whitespace(t5)

(***************************************************************************)
(* Quick validator                                                         *)
(***************************************************************************)
problematic_para ==
  << <<"p","a","r","a"," ","a","g","u","a"," ","s","u","c","i","a">>,
     <<"p","a","r","a"," ","a","g","u","a"," ","l","i","m","p","i","a">>,
     <<"p","a","r","a"," ","s","e","l","l","a","d","o"," ","d","e"," ","r","o","s","c","a","s">>,
     <<"p","a","r","a"," ","s","e","l","l","a","d","o">>,
     <<"p","a","r","a"," ","d","r","e","n","a","j","e","s"," ","y"," ","t","u","b","e","r","í","a","s">>,
     <<"p","a","r","a"," ","d","r","e","n","a","j","e","s">>,
     <<"p","a","r","a"," ","c","o","n","s","t","r","u","c","c","i","ó","n">>,
     <<"p","a","r","a"," ","p","l","o","m","e","r","í","a">>,
     <<"p","a","r","a"," ","t","u","b","e","r","í","a">>,
     <<"p","a","r","a"," ","f","e","r","r","e","t","e","r","í","a">>
  >>

T_para_agua_sucia == problematic_para[1]
T_para_agua_limpia == problematic_para[2]
T_para_sellado == problematic_para[4]

abbrev_map(phrase) ==
  IF phrase = T_para_agua_sucia
    THEN << <<"A",".","S","U","C","I","A">>, <<"A"," ","S","U","C","I","A">> >>
  ELSE IF phrase = T_para_agua_limpia
    THEN << <<"A",".","L","I","M","P">>, <<"A"," ","L","I","M","P">> >>
  ELSE IF phrase = T_para_sellado
    THEN << <<"P","/","S","E","L","L","A","D","O">>, <<"P"," ","S","E","L","L","A","D","O">> >>
  ELSE << >>

\* An issue string: kind names the f-string, a and b its two arguments
Issue(kind, a, b) == [kind |-> kind, a |-> a, b |-> b]

\* Rule 1 for one phrase: the issues it appends
ParaIssues(original_title, generated_title, phrase) ==
  LET orig_upper == upper(original_title)
      abbrevs == abbrev_map(phrase)
      hits == { k \in 1..Len(abbrevs) : Contains(orig_upper, abbrevs[k]) }
  IN IF ~Contains(lower(generated_title), phrase) THEN <<>>
     ELSE IF Contains(lower(original_title), phrase) THEN <<>>
     ELSE IF hits # {}
       THEN << Issue("incorrect_para", phrase,
                     abbrevs[CHOOSE k \in hits : \A j \in hits : k <= j]) >>
     ELSE << Issue("generic_phrase", phrase, <<>>) >>

RECURSIVE Rule1From(_, _, _)
Rule1From(original_title, generated_title, k) ==
  IF k > Len(problematic_para) THEN <<>>
  ELSE ParaIssues(original_title, generated_title, problematic_para[k])
       \o Rule1From(original_title, generated_title, k + 1)

RECURSIVE Rule2From(_, _, _)
Rule2From(original_title, generated_title, k) ==
  IF k > Len(FORBIDDEN_TECH_TERMS) THEN <<>>
  ELSE LET term == lower(FORBIDDEN_TECH_TERMS[k]) IN
       (IF Contains(lower(generated_title), term)
           /\ ~Contains(lower(original_title), term)
        THEN << Issue("invented_term", FORBIDDEN_TECH_TERMS[k], <<>>) >>
        ELSE <<>>)
       \o Rule2From(original_title, generated_title, k + 1)

\* The alternation (?:mm|cm|m|plg|pulgada|Hp|HP|L/min|W), in its order
MeasureUnits ==
  << <<"m","m">>,
     <<"c","m">>,
     <<"m">>,
     <<"p","l","g">>,
     <<"p","u","l","g","a","d","a">>,
     <<"H","p">>,
     <<"H","P">>,
     <<"L","/","m","i","n">>,
     <<"W">> >>

RECURSIVE DigitsEnd(_, _)
\* first index at or after i that holds no digit
DigitsEnd(s, i) == IF i <= Len(s) /\ IsDigit(s[i]) THEN DigitsEnd(s, i + 1) ELSE i

RECURSIVE SpaceEnd(_, _)
SpaceEnd(s, i) == IF i <= Len(s) /\ IsSpace(s[i]) THEN SpaceEnd(s, i + 1) ELSE i

\* Length of the unit matched at i (first alternative that matches), else 0
UnitLenAt(s, i) ==
  LET ok == { k \in 1..Len(MeasureUnits) : MatchAt(s, i, MeasureUnits[k]) } IN
  IF ok = {} THEN 0
  ELSE Len(MeasureUnits[CHOOSE k \in ok : \A j \in ok : k <= j])

\* End (exclusive) of the match of \d+(?:/\d+)?(?:\s*(?:unit)) at i, 0 when
\* none.  \d+ and \s* are followed by something they cannot match, so giving
\* characters back never helps: the greedy extents are the only candidates,
\* first with the fraction, then without it.
MeasureEndAt(s, i) ==
  LET d == DigitsEnd(s, i)
      hasFrac == d <= Len(s) /\ s[d] = "/" /\ DigitsEnd(s, d + 1) > d + 1
      f == SpaceEnd(s, DigitsEnd(s, d + 1))
      n == SpaceEnd(s, d)
  IN IF d = i THEN 0
     ELSE IF hasFrac /\ UnitLenAt(s, f) > 0 THEN f + UnitLenAt(s, f)
     ELSE IF UnitLenAt(s, n) > 0 THEN n + UnitLenAt(s, n)
     ELSE 0

RECURSIVE FindMeasures(_, _)
\* re.findall of the measurement pattern from index i on
FindMeasures(s, i) ==
  IF i > Len(s) THEN <<>>
  ELSE LET e == MeasureEndAt(s, i) IN
       IF e > 0 THEN <<SubSeq(s, i, e - 1)>> \o FindMeasures(s, e)
       ELSE FindMeasures(s, i + 1)

T_Hp == <<"H","p">>
T_hp == <<"h","p">>
T_HP == <<"H","P">>

NormalizeHp(s) == replace(replace(s, T_Hp, T_HP), T_hp, T_HP)

RECURSIVE Rule3From(_, _, _)
Rule3From(measurements, generated_title, k) ==
  IF k > Len(measurements) THEN <<>>
  ELSE (IF ~Contains(NormalizeHp(generated_title), NormalizeHp(measurements[k]))
        THEN << Issue("missing_measure", measurements[k], <<>>) >>
        ELSE <<>>)
       \o Rule3From(measurements, generated_title, k + 1)

quick_validation_rules(original_title, generated_title) ==
  IF original_title = <<>> \/ generated_title = <<>> THEN <<>>
  ELSE Rule1From(original_title, generated_title, 1)
       \o Rule2From(original_title, generated_title, 1)
       \o Rule3From(FindMeasures(original_title, 1), generated_title, 1)

(***************************************************************************)
(* Taxonomy matcher                                                        *)
(***************************************************************************)
\* index of the first ")" of s at or after i, 0 when there is none
RECURSIVE CloseParen(_, _)
CloseParen(s, i) ==
  IF i > Len(s) THEN 0 ELSE IF s[i] = ")" THEN i ELSE CloseParen(s, i + 1)

\* End (inclusive) of the match of \s*\([^)]*\) at i, 0 when there is none
ParenCodeEnd(s, i) ==
  LET p == SpaceEnd(s, i) IN
  IF p <= Len(s) /\ s[p] = "(" THEN CloseParen(s, p + 1) ELSE 0

RECURSIVE StripCodesFrom(_, _)
\* re.sub(r"\s*\([^)]*\)", "", value)
StripCodesFrom(s, i) ==
  IF i > Len(s) THEN <<>>
  ELSE IF ParenCodeEnd(s, i) > 0 THEN StripCodesFrom(s, ParenCodeEnd(s, i) + 1)
  ELSE <<s[i]>> \o StripCodesFrom(s, i + 1)

normalize_tax_value(value) == upper(strip(StripCodesFrom(value, 1)))

\* set(text.split())
WordSet(text) == Range(split(text))

\* Mutant: the family is not compared
Candidates_DeptOnly(df, dep_norm, fam_norm) ==
  { r \in DOMAIN df : normalize_tax_value(df[r].Departamento) = dep_norm }

\* Lines 176-179: the rows with the query's normalized department and family
Candidates(df, dep_norm, fam_norm) ==
  { r \in DOMAIN df :
      /\ normalize_tax_value(df[r].Departamento) = dep_norm
      /\ normalize_tax_value(df[r].Familia) = fam_norm }

\* Mutant: the exact category match is skipped
WithCat_Never(df, candidates, cat_norm) == {}

\* Lines 183-185: the candidates with the query's normalized category
WithCat(df, candidates, cat_norm) ==
  { r \in candidates : normalize_tax_value(df[r].Categoria) = cat_norm }

\* Mutant: every candidate scores alike
Score_Flat(df, r, cat_words) == 0

\* Lines 192-194: the words the row's category shares with the query's
Score(df, r, cat_words) ==
  Cardinality(cat_words \cap WordSet(normalize_tax_value(df[r].Categoria)))

\* Mutant: the last row is taken
FirstRow_Last(rows) == CHOOSE r \in rows : \A q \in rows : q <= r

\* .iloc[0]: the earliest of the rows
FirstRow(rows) == CHOOSE r \in rows : \A q \in rows : r <= q

\* The candidates of the largest score
BestRows(df, candidates, cat_words) ==
  { r \in candidates :
      \A q \in candidates : Score(df, q, cat_words) <= Score(df, r, cat_words) }

\* Mutant: the last row of the largest score
idxmax_Last(df, candidates, cat_words) ==
  LET best == BestRows(df, candidates, cat_words)
  IN CHOOSE r \in best : \A q \in best : q <= r

\* Lines 196-197: idxmax gives the first row of the largest score
idxmax(df, candidates, cat_words) ==
  LET best == BestRows(df, candidates, cat_words)
  IN CHOOSE r \in best : \A q \in best : r <= q

\* find_pattern_row: the index of the returned row of nomenclature_df, 0 for None
find_pattern_row(nomenclature_df, dept, fam, cat) ==
  LET dep_norm == normalize_tax_value(dept)
      fam_norm == normalize_tax_value(fam)
      cat_norm == normalize_tax_value(cat)
      candidates == Candidates(nomenclature_df, dep_norm, fam_norm)
      with_cat == WithCat(nomenclature_df, candidates, cat_norm)
      cat_words == WordSet(cat_norm)
  IN IF candidates = {} THEN 0
     ELSE IF with_cat # {} THEN FirstRow(with_cat)
     ELSE IF cat_words = {} THEN FirstRow(candidates)
     ELSE idxmax(nomenclature_df, candidates, cat_words)

(***************************************************************************)
(* JSON values and the data of the batch run                               *)
(***************************************************************************)
Str(s) == [t |-> "str", v |-> s]

List(items) == [t |-> "list", v |-> items]

Null == [t |-> "null", v |-> <<>>]

\* a non-zero JSON number
Num == [t |-> "num", v |-> <<>>]

JTrue == [t |-> "true", v |-> <<>>]

JFalse == [t |-> "false", v |-> <<>>]

\* the key is not in the dict
Absent == [t |-> "absent", v |-> <<>>]

\* Python truth value of a JSON value that is present
Truthy(j) ==
  \/ j.t \in {"true", "num"}
  \/ j.t \in {"str", "list"} /\ j.v # <<>>

\* dict.get(key, default)
Get(j, default) == IF j.t = "absent" THEN default ELSE j

\* "Plomeria (0024)"
T_PlomeriaCode ==
  <<"P","l","o","m","e","r","i","a"," ","(","0","0","2","4",")">>

\* "Bombas"
T_Bombas ==
  <<"B","o","m","b","a","s">>

\* "Bombas Sumergibles"
T_BombasSumergibles ==
  <<"B","o","m","b","a","s"," ","S","u","m","e","r","g","i","b","l","e","s">>

\* "Bombas Perifericas"
T_BombasPerifericas ==
  <<"B","o","m","b","a","s"," ","P","e","r","i","f","e","r","i","c","a","s">>

\* "Ferreteria"
T_Ferreteria ==
  <<"F","e","r","r","e","t","e","r","i","a">>

\* "Cintas"
T_Cintas ==
  <<"C","i","n","t","a","s">>

\* "Cintas Teflon"
T_CintasTeflon ==
  <<"C","i","n","t","a","s"," ","T","e","f","l","o","n">>

\* "Tipo + Uso + Potencia"
T_PatternBomba ==
  <<"T","i","p","o"," ","+"," ","U","s","o"," ","+"," ","P","o","t","e","n","c","i","a">>

\* "Tipo + Potencia"
T_PatternPeriferica ==
  <<"T","i","p","o"," ","+"," ","P","o","t","e","n","c","i","a">>

\* "Tipo + Material + Medida"
T_PatternCinta ==
  <<"T","i","p","o"," ","+"," ","M","a","t","e","r","i","a","l"," ","+"," ","M","e","d","i","d","a">>

\* "PLOMERIA"
T_PLOMERIA ==
  <<"P","L","O","M","E","R","I","A">>

\* "bombas"
T_bombas ==
  <<"b","o","m","b","a","s">>

\* "Bombas sumergibles (01)"
T_BombasSumCode ==
  <<"B","o","m","b","a","s"," ","s","u","m","e","r","g","i","b","l","e","s"," ","(","0","1",")">>

\* "Ferreteria (0030)"
T_FerreteriaCode ==
  <<"F","e","r","r","e","t","e","r","i","a"," ","(","0","0","3","0",")">>

\* "Teflon"
T_Teflon ==
  <<"T","e","f","l","o","n">>

\* "Jardin"
T_Jardin ==
  <<"J","a","r","d","i","n">>

\* "Riego"
T_Riego ==
  <<"R","i","e","g","o">>

\* "BOMBA SUM A.SUCIA 1 1/2HP"
T_OrigBomba ==
  <<"B","O","M","B","A"," ","S","U","M"," ","A",".","S","U","C","I","A"," ","1"," ","1","/","2","H","P">>

\* "CINTA TEFLON 1/2X7M"
T_OrigCinta ==
  <<"C","I","N","T","A"," ","T","E","F","L","O","N"," ","1","/","2","X","7","M">>

\* "MANGUERA 15 m"
T_OrigManguera ==
  <<"M","A","N","G","U","E","R","A"," ","1","5"," ","m">>

\* "Bomba Sumergible para Agua Sucia 1 1/2HP"
T_SeoPara ==
  <<"B","o","m","b","a"," ","S","u","m","e","r","g","i","b","l","e"," ","p","a","r","a"," ","A","g","u","a"," ","S","u","c","i","a"," ","1"," ","1","/","2","H","P">>

\* "Bomba Sumergible Agua Sucia 1 1/2HP"
T_SeoOk ==
  <<"B","o","m","b","a"," ","S","u","m","e","r","g","i","b","l","e"," ","A","g","u","a"," ","S","u","c","i","a"," ","1"," ","1","/","2","H","P">>

\* "BOMBA SUMERGIBLE PARA AGUA SUCIA 1 1/2HP ACERO INOXIDABLE"
T_SistemaLong ==
  <<"B","O","M","B","A"," ","S","U","M","E","R","G","I","B","L","E"," ","P","A","R","A"," ","A","G","U","A"," ","S","U","C","I","A"," ","1"," ","1","/","2","H","P"," ","A","C","E","R","O"," ","I","N","O","X","I","D","A","B","L","E">>

\* "BOMBA SUMERGIBLE AGUA SUCIA 1 1/2HP ACERO INOX"
T_EtiquetaLong ==
  <<"B","O","M","B","A"," ","S","U","M","E","R","G","I","B","L","E"," ","A","G","U","A"," ","S","U","C","I","A"," ","1"," ","1","/","2","H","P"," ","A","C","E","R","O"," ","I","N","O","X">>

\* "BOMBA SUM AGUA SUCIA 1 1/2HP"
T_SistemaShort ==
  <<"B","O","M","B","A"," ","S","U","M"," ","A","G","U","A"," ","S","U","C","I","A"," ","1"," ","1","/","2","H","P">>

\* "Bomba Sumergible Agua Sucia 1 1/2 HP"
T_Corrected ==
  <<"B","o","m","b","a"," ","S","u","m","e","r","g","i","b","l","e"," ","A","g","u","a"," ","S","u","c","i","a"," ","1"," ","1","/","2"," ","H","P">>

\* "Agregó para sin P/ en el original"
T_AgentNote ==
  <<"A","g","r","e","g","ó"," ","p","a","r","a"," ","s","i","n"," ","P","/"," ","e","n"," ","e","l"," ","o","r","i","g","i","n","a","l">>


\* The nomenclature sheet loaded in the session (st.session_state.nomenclature_df)
nomenclature_df ==
  << [Departamento |-> T_PlomeriaCode, Familia |-> T_Bombas,
      Categoria |-> T_BombasSumergibles, Nomenclatura |-> T_PatternBomba],
     [Departamento |-> T_PlomeriaCode, Familia |-> T_Bombas,
      Categoria |-> T_BombasPerifericas, Nomenclatura |-> T_PatternPeriferica],
     [Departamento |-> T_Ferreteria, Familia |-> T_Cintas,
      Categoria |-> T_CintasTeflon, Nomenclatura |-> T_PatternCinta] >>

\* Rows of an uploaded batch file
RowBomba ==
  [titulo_sistema |-> T_OrigBomba, departamento |-> T_PLOMERIA,
   familia |-> T_bombas, categoria |-> T_BombasSumCode]

RowCinta ==
  [titulo_sistema |-> T_OrigCinta, departamento |-> T_FerreteriaCode,
   familia |-> T_Cintas, categoria |-> T_Teflon]

RowUncovered ==
  [titulo_sistema |-> T_OrigManguera, departamento |-> T_Jardin,
   familia |-> T_Riego, categoria |-> T_Riego]

InputRows == { RowBomba, RowCinta, RowUncovered }

\* Largest uploaded file and largest slider value of the model
MaxRows == 2

MaxBatchSize == 2

RECURSIVE SeqsUpTo(_, _)
SeqsUpTo(S, n) ==
  IF n = 0 THEN { <<>> }
  ELSE LET shorter == SeqsUpTo(S, n - 1) IN
       shorter \cup { Append(q, x) : q \in { r \in shorter : Len(r) = n - 1 }, x \in S }

\* Elements of the array the generation engine returns
TripleObject(sistema, etiqueta, seo) ==
  [kind |-> "object", titulo_sistema |-> sistema, titulo_etiqueta |-> etiqueta,
   titulo_seo |-> seo]

EnginePara == TripleObject(Str(T_SistemaLong), Str(T_EtiquetaLong), Str(T_SeoPara))

EngineOk == TripleObject(Str(T_SistemaShort), Absent, Str(T_SeoOk))

\* an array element that is not a JSON object
EngineNonObject ==
  [kind |-> "nonobject", titulo_sistema |-> Absent, titulo_etiqueta |-> Absent,
   titulo_seo |-> Absent]

\* "Bomba Sumergible 1 1/2HP para hogar hidráulico"
T_SeoGeneric ==
  <<"B","o","m","b","a"," ","S","u","m","e","r","g","i","b","l","e"," ","1"," ","1","/","2","H","P"," ","p","a","r","a"," ","h","o","g","a","r"," ","h","i","d","r","á","u","l","i","c","o">>

\* a triple whose SEO title names a forbidden term after a generic phrase
EngineGeneric == TripleObject(Str(T_SistemaShort), Str(T_EtiquetaLong), Str(T_SeoGeneric))

EngineElements == { EnginePara, EngineOk, EngineGeneric, EngineNonObject }

\* What validate_with_agent's json.loads yields, or the failure of the call
AgentObject(is_valid, corrected_title, issues_found) ==
  [kind |-> "object", is_valid |-> is_valid, corrected_title |-> corrected_title,
   issues_found |-> issues_found]

\* kind "nonobject": the reply parses as JSON but is no object; kind "error":
\* the call or json.loads raised
AgentOther(kind) ==
  [kind |-> kind, is_valid |-> Absent, corrected_title |-> Absent,
   issues_found |-> Absent]

AgentText == Issue("agent", T_AgentNote, <<>>)

\* "Bomba Sumergible hidráulico 1 1/2 HP para hogar"
T_CorrectedGeneric ==
  <<"B","o","m","b","a"," ","S","u","m","e","r","g","i","b","l","e"," ","h","i","d","r","á","u","l","i","c","o"," ","1"," ","1","/","2"," ","H","P"," ","p","a","r","a"," ","h","o","g","a","r">>

AgentReplies ==
  { AgentObject(JFalse, Str(T_Corrected), List(<<AgentText>>)),
    AgentObject(JFalse, Str(T_CorrectedGeneric), List(<<AgentText>>)),
    AgentObject(JTrue, Str(T_Corrected), List(<<>>)),
    AgentObject(JFalse, Absent, Absent),
    AgentObject(JFalse, Str(T_Corrected), Str(T_AgentNote)),
    AgentObject(JFalse, Str(T_Corrected), List(<<Issue("nonstr", <<>>, <<>>)>>)),
    AgentOther("nonobject"),
    AgentOther("error") }

(***************************************************************************)
(* The batch run ("Procesar Lote") and process_batch_with_validation       *)
(***************************************************************************)
VARIABLES
  pc,                    \* position of the run
  batch_df,              \* the uploaded rows
  batch_size,            \* slider
  enable_ai_validation,  \* checkbox
  transformation_memory, \* st.session_state.transformation_memory
  validation_stats,      \* st.session_state.validation_stats
  results,
  failed_products,
  batch_start,
  products_batch,
  batch_patterns,
  batch_results,         \* the array parsed from the generation response
  idx,                   \* position of the zip loop, from 1
  result,                \* the dict of the record being processed
  generated_seo,
  quick_issues,
  ai_validation,         \* what validate_with_agent returned
  final_results,
  returned,              \* what process_batch_with_validation returned
  error,                 \* the exception its except clause caught, "none" if none
  gen_calls,             \* generation calls of this run
  agent_calls,           \* correction calls of this run
  call                   \* a helper function applied on its own: its arguments and result

vars ==
  << pc, batch_df, batch_size, enable_ai_validation, transformation_memory,
     validation_stats, results, failed_products, batch_start, products_batch,
     batch_patterns, batch_results, idx, result, generated_seo, quick_issues,
     ai_validation, final_results, returned, error, gen_calls, agent_calls, call >>

config == << batch_df, batch_size, enable_ai_validation, transformation_memory >>

outer == << validation_stats, results, failed_products, batch_start >>

locals == << result, generated_seo, quick_issues, ai_validation >>

Min(a, b) == IF a <= b THEN a ELSE b

ZeroStats ==
  [total_processed |-> 0, validation_passed |-> 0, validation_corrected |-> 0,
   validation_failed |-> 0]

NoResult ==
  [titulo_sistema |-> Absent, titulo_etiqueta |-> Absent, titulo_seo |-> Absent,
   validation |-> Absent]

NoReply == AgentOther("none")

\* Lines 795-798: the three checkboxes, at their default value
want_sistema == TRUE

want_etiqueta == TRUE

want_seo == TRUE

\* "sumergible" / "Sum"
T_sumergible ==
  <<"s","u","m","e","r","g","i","b","l","e">>

T_Sum ==
  <<"S","u","m">>

\* The session's transformation memory: (original, replacement) pairs in
\* insertion order
SessionMemory == << <<T_sumergible, T_Sum>> >>

\* no helper is applied on its own during a batch run
NoCall == [fn |-> "none", args |-> <<>>, done |-> FALSE, out |-> <<>>]

\* Lines 20-34 and 818-832: the session before a file is uploaded
SessionInit ==
  /\ pc = "idle"
  /\ batch_df = <<>>
  /\ batch_size = 1
  /\ enable_ai_validation = TRUE
  /\ transformation_memory = SessionMemory
  /\ validation_stats = ZeroStats
  /\ results = <<>>
  /\ failed_products = <<>>
  /\ batch_start = 0
  /\ products_batch = <<>>
  /\ batch_patterns = <<>>
  /\ batch_results = <<>>
  /\ idx = 1
  /\ result = NoResult
  /\ generated_seo = Absent
  /\ quick_issues = <<>>
  /\ ai_validation = NoReply
  /\ final_results = <<>>
  /\ returned = <<>>
  /\ error = "none"
  /\ gen_calls = <<>>
  /\ agent_calls = <<>>

Init == SessionInit /\ call = NoCall

\* Lines 686-699 and 768-799: a file is uploaded and the sidebar and the
\* checkboxes are set
Configure(df, size, enable) ==
  /\ pc = "idle"
  /\ batch_df' = df
  /\ batch_size' = size
  /\ enable_ai_validation' = enable
  /\ pc' = "ready"
  /\ UNCHANGED << call, transformation_memory, outer, products_batch, batch_patterns,
                  batch_results, idx, locals, final_results, returned, error,
                  gen_calls, agent_calls >>

\* Lines 803-834: the button is pressed (an API key is configured); results,
\* failures and statistics start empty.
ProcesarLote ==
  /\ pc \in {"ready", "done"}
  /\ validation_stats' = ZeroStats
  /\ results' = <<>>
  /\ failed_products' = <<>>
  /\ batch_start' = 0
  /\ products_batch' = <<>>
  /\ batch_patterns' = <<>>
  /\ batch_results' = <<>>
  /\ idx' = 1
  /\ result' = NoResult
  /\ generated_seo' = Absent
  /\ quick_issues' = <<>>
  /\ ai_validation' = NoReply
  /\ final_results' = <<>>
  /\ returned' = <<>>
  /\ error' = "none"
  /\ gen_calls' = <<>>
  /\ agent_calls' = <<>>
  /\ pc' = IF Len(batch_df) = 0 THEN "done" ELSE "prepare"
  /\ UNCHANGED << call, config >>

\* The loop header of line 834 after a slice: the next slice or the end
NextPc(start) == IF start + batch_size < Len(batch_df) THEN "prepare" ELSE "done"

PatternOf(row) ==
  find_pattern_row(nomenclature_df, row.departamento, row.familia, row.categoria)

Product(i) ==
  [row |-> i, titulo_sistema_existente |-> batch_df[i].titulo_sistema,
   marca |-> <<>>]

\* Mutant: an uncovered row is reported without the reason
Uncovered_OtherReason(i) ==
  [row |-> i, titulo |-> batch_df[i].titulo_sistema, reason |-> "exception"]

Uncovered(i) ==
  [row |-> i, titulo |-> batch_df[i].titulo_sistema, reason |-> "No matching nomenclature rule"]

RECURSIVE Gather(_, _, _)
\* f(i) for the i of lo..hi that satisfy Covered(i) = keep, in order
Gather(lo, hi, keep) ==
  IF lo > hi THEN <<>>
  ELSE (IF (PatternOf(batch_df[lo]) # 0) = keep THEN <<lo>> ELSE <<>>)
       \o Gather(lo + 1, hi, keep)

\* Lines 835-875: resolve the pattern of every row of the slice
PrepareBatch ==
  /\ pc = "prepare"
  /\ LET batch_end == Min(batch_start + batch_size, Len(batch_df))
         covered == Gather(batch_start + 1, batch_end, TRUE)
         missing == Gather(batch_start + 1, batch_end, FALSE)
     IN /\ failed_products' =
             failed_products \o [k \in 1..Len(missing) |-> Uncovered(missing[k])]
        /\ products_batch' = [k \in 1..Len(covered) |-> Product(covered[k])]
        /\ batch_patterns' =
             [k \in 1..Len(covered) |->
                nomenclature_df[PatternOf(batch_df[covered[k]])].Nomenclatura]
        /\ IF covered = <<>>
             THEN /\ pc' = NextPc(batch_start)
                  /\ batch_start' = batch_start + batch_size
             ELSE /\ pc' = "generate"
                  /\ UNCHANGED batch_start
  /\ UNCHANGED << call, config, validation_stats, results, batch_results, idx, locals,
                  final_results, returned, error, gen_calls, agent_calls >>

\* A generation call: the rows it carries, the pattern sent with them and
\* what came back ("array" with its length, or the failure)
GenCall(response, length) ==
  [rows |-> [k \in 1..Len(products_batch) |-> products_batch[k].row],
   pattern |-> batch_patterns[1], response |-> response, length |-> length]

\* Lines 501-515 and 587-589: the call raises, the text is not JSON, or the
\* JSON is not an array: the except clause returns [].
GenerationFails(why) ==
  /\ pc = "generate"
  /\ gen_calls' = Append(gen_calls, GenCall(why, 0))
  /\ batch_results' = <<>>
  /\ final_results' = <<>>
  /\ returned' = <<>>
  /\ error' = why
  /\ idx' = 1
  /\ pc' = "collect"
  /\ UNCHANGED << call, config, outer, products_batch, batch_patterns, locals, agent_calls >>

\* Lines 501-520: the response parses to the array arr
GenerationReturns(arr) ==
  /\ pc = "generate"
  /\ gen_calls' = Append(gen_calls, GenCall("array", Len(arr)))
  /\ batch_results' = arr
  /\ final_results' = <<>>
  /\ returned' = <<>>
  /\ error' = "none"
  /\ idx' = 1
  /\ pc' = IF arr = <<>> THEN "collect" ELSE "record"
  /\ UNCHANGED << call, config, outer, products_batch, batch_patterns, locals, agent_calls >>

\* Lines 587-589: an exception inside the try block discards final_results
Abort(why) ==
  /\ returned' = <<>>
  /\ error' = why
  /\ pc' = "collect"

NormalizeField(j, brand) ==
  IF j.t = "str" THEN Str(NormalizeTitle(j.v, transformation_memory, brand)) ELSE j

\* Lines 520-545: post-process the three fields of the next triple
NormalizeRecord ==
  /\ pc = "record"
  /\ LET element == batch_results[idx]
         brand == strip(products_batch[idx].marca)
     IN IF element.kind # "object"
          THEN Abort("element") /\ UNCHANGED result
          ELSE /\ result' =
                    [titulo_sistema |-> NormalizeField(element.titulo_sistema, brand),
                     titulo_etiqueta |-> NormalizeField(element.titulo_etiqueta, brand),
                     titulo_seo |-> NormalizeField(element.titulo_seo, brand),
                     validation |-> Absent]
               /\ pc' = "generated"
               /\ UNCHANGED << returned, error >>
  /\ UNCHANGED << call, config, outer, products_batch, batch_patterns, batch_results, idx,
                  generated_seo, quick_issues, ai_validation, final_results,
                  gen_calls, agent_calls >>

\* Lines 547-552: the quick check on (original title, normalized SEO title).
\* A SEO value that is true in Python but is no string has no .lower().
QuickCheck ==
  /\ pc = "generated"
  /\ LET original_title == products_batch[idx].titulo_sistema_existente
         seo == Get(result.titulo_seo, Str(<<>>))
     IN /\ generated_seo' = seo
        /\ IF original_title = <<>> \/ ~Truthy(seo)
             THEN /\ quick_issues' = <<>>
                  /\ pc' = "quick_checked"
                  /\ UNCHANGED << returned, error >>
           ELSE IF seo.t # "str"
             THEN Abort("seo_type") /\ UNCHANGED quick_issues
           ELSE /\ quick_issues' = quick_validation_rules(original_title, seo.v)
                /\ pc' = "quick_checked"
                /\ UNCHANGED << returned, error >>
  /\ UNCHANGED << call, config, outer, products_batch, batch_patterns, batch_results, idx,
                  result, ai_validation, final_results, gen_calls, agent_calls >>

Metadata(method, status, issues, corrected) ==
  [validation_method |-> method, validation_status |-> status,
   issues_found |-> issues, corrected |-> corrected]

\* Mutant: the default status is not "passed"
DefaultMetadata_Warnings == Metadata("none", "warnings", <<>>, FALSE)

\* Lines 554-559: the metadata every record starts with
DefaultMetadata == Metadata("none", "passed", <<>>, FALSE)

\* Mutant: the call is made whenever AI validation is enabled
ShouldCallAgent_IgnoresIssues(issues, enabled) == enabled

\* Mutant: the call is made whenever there are issues
ShouldCallAgent_IgnoresCheckbox(issues, enabled) == issues # <<>>

\* Line 562: the correction agent is called
ShouldCallAgent(issues, enabled) == issues # <<>> /\ enabled

\* Lines 576-580
RulesOnlyMetadata(issues) == Metadata("rules_only", "warnings", issues, FALSE)

\* Line 565: not ai_validation.get("is_valid", True)
IsInvalid(ai) == ~Truthy(Get(ai.is_valid, JTrue))

\* Mutant: the corrected title is never used
SeoAfterAgent_NeverCorrects(ai, generated, current) == current

\* Mutant: the corrected title is used whatever is_valid says
SeoAfterAgent_AlwaysCorrects(ai, generated, current) ==
  Get(ai.corrected_title, generated)

\* Lines 565-567: result["titulo_seo"] after the correction call
SeoAfterAgent(ai, generated, current) ==
  IF IsInvalid(ai) THEN Get(ai.corrected_title, generated) ELSE current

\* Lines 565-574: the metadata after the correction call; more is the list
\* ai_validation.get("issues_found", [])
AgentMetadata(ai, issues, more) ==
  Metadata("ai_validated",
           IF IsInvalid(ai) THEN "corrected" ELSE "passed_with_warnings",
           issues \o more, IsInvalid(ai))

\* Mutant: the correction also replaces the system and label titles
AfterAgent_RewritesTitles(res, ai, generated, issues, more) ==
  [res EXCEPT
     !.titulo_sistema = SeoAfterAgent(ai, generated, @),
     !.titulo_etiqueta = SeoAfterAgent(ai, generated, @),
     !.titulo_seo = SeoAfterAgent(ai, generated, @),
     !.validation = AgentMetadata(ai, issues, more)]

\* Lines 565-574 and 582: the record after the correction call: only the SEO
\* field and the metadata are assigned
AfterAgent(res, ai, generated, issues, more) ==
  [res EXCEPT
     !.titulo_seo = SeoAfterAgent(ai, generated, @),
     !.validation = AgentMetadata(ai, issues, more)]

\* Lines 554-559 and 582: no issue, the default metadata stands
ValidatePassed ==
  /\ pc = "quick_checked"
  /\ ~ShouldCallAgent(quick_issues, enable_ai_validation)
  /\ quick_issues = <<>>
  /\ result' = [result EXCEPT !.validation = DefaultMetadata]
  /\ pc' = "validated"
  /\ UNCHANGED << call, config, outer, products_batch, batch_patterns, batch_results, idx,
                  generated_seo, quick_issues, ai_validation, final_results,
                  returned, error, gen_calls, agent_calls >>

\* Lines 576-582: issues, AI validation disabled
ValidateRulesOnly ==
  /\ pc = "quick_checked"
  /\ ~ShouldCallAgent(quick_issues, enable_ai_validation)
  /\ quick_issues # <<>>
  /\ result' = [result EXCEPT !.validation = RulesOnlyMetadata(quick_issues)]
  /\ pc' = "validated"
  /\ UNCHANGED << call, config, outer, products_batch, batch_patterns, batch_results, idx,
                  generated_seo, quick_issues, ai_validation, final_results,
                  returned, error, gen_calls, agent_calls >>

ValidationError == Issue("validation_error", <<>>, <<>>)

\* Mutant: the fallback carries no title
AgentFallback_NoTitle(generated_title) ==
  AgentObject(JFalse, Null, List(<<ValidationError>>))

\* Lines 413-420: the dict validate_with_agent returns when its try block raises
AgentFallback(generated_title) ==
  AgentObject(JFalse, generated_title, List(<<ValidationError>>))

\* Lines 399-420: reply is what the agent answers ("error": the call or
\* json.loads raises)
validate_with_agent(generated_title, reply) ==
  IF reply.kind = "error" THEN AgentFallback(generated_title) ELSE reply

AgentCall ==
  [row |-> products_batch[idx].row, at |-> pc, issues |-> quick_issues,
   enabled |-> enable_ai_validation, generated |-> generated_seo]

\* Lines 562-574 and 582: the correction call and the merge of its result.
\* .get on a reply that is no dict, and list + a value that is no list, raise.
ValidateWithAgent(reply) ==
  /\ pc = "quick_checked"
  /\ ShouldCallAgent(quick_issues, enable_ai_validation)
  /\ agent_calls' = Append(agent_calls, AgentCall)
  /\ LET ai == validate_with_agent(generated_seo, reply)
         more == Get(ai.issues_found, List(<<>>))
     IN /\ ai_validation' = ai
        /\ IF ai.kind # "object" \/ more.t # "list"
             THEN Abort("agent_reply") /\ UNCHANGED result
             ELSE /\ result' = AfterAgent(result, ai, generated_seo, quick_issues, more.v)
                  /\ pc' = "validated"
                  /\ UNCHANGED << returned, error >>
  /\ UNCHANGED << call, config, outer, products_batch, batch_patterns, batch_results, idx,
                  generated_seo, quick_issues, final_results, gen_calls >>

\* Lines 583-585 and the zip of line 520: keep the result, go on with the next
\* pair or return
AppendResult ==
  /\ pc = "validated"
  /\ final_results' = Append(final_results, result)
  /\ idx' = idx + 1
  /\ IF idx + 1 > Min(Len(products_batch), Len(batch_results))
       THEN returned' = Append(final_results, result) /\ pc' = "collect"
       ELSE pc' = "record" /\ UNCHANGED returned
  /\ UNCHANGED << call, config, outer, products_batch, batch_patterns, batch_results,
                  locals, error, gen_calls, agent_calls >>

\* Lines 891-914: the output row of one (product, result) pair
RowOut(product, res) ==
  [row |-> product.row,
   titulo_sistema_original |-> batch_df[product.row].titulo_sistema,
   titulo_sistema_generado |-> IF want_sistema THEN res.titulo_sistema ELSE Absent,
   titulo_etiqueta |-> IF want_etiqueta THEN res.titulo_etiqueta ELSE Absent,
   titulo_seo |-> IF want_seo THEN res.titulo_seo ELSE Absent,
   validation_status |-> res.validation.validation_status,
   validation_issues |-> res.validation.issues_found,
   corrected |-> res.validation.corrected]

\* Line 913: '; '.join raises on an item that is no string
JoinRaises(res) ==
  \E k \in 1..Len(res.validation.issues_found) :
     res.validation.issues_found[k].kind = "nonstr"

\* Lines 917-921
StatsAfter(stats, res) ==
  [stats EXCEPT
     !.total_processed = @ + 1,
     !.validation_passed =
        IF res.validation.validation_status = "passed" THEN @ + 1 ELSE @,
     !.validation_corrected =
        IF res.validation.validation_status # "passed" /\ res.validation.corrected
        THEN @ + 1 ELSE @]

RECURSIVE StatsOver(_, _, _)
StatsOver(stats, rs, n) ==
  IF n = 0 THEN stats ELSE StatsAfter(StatsOver(stats, rs, n - 1), rs[n])

BatchFailure(product) ==
  [row |-> product.row, titulo |-> product.titulo_sistema_existente,
   reason |-> "exception"]

\* Lines 887-944: pair the products with the returned results; an exception
\* while collecting reports every product of the batch as failed.
CollectResults ==
  /\ pc = "collect"
  /\ LET n == Min(Len(products_batch), Len(returned))
         bad == { k \in 1..n : JoinRaises(returned[k]) }
         kept == IF bad = {} THEN n
                 ELSE (CHOOSE k \in bad : \A j \in bad : k <= j) - 1
     IN /\ results' = results \o
             [k \in 1..kept |-> RowOut(products_batch[k], returned[k])]
        /\ validation_stats' = StatsOver(validation_stats, returned, kept)
        /\ failed_products' =
             IF bad = {} THEN failed_products
             ELSE failed_products \o
                  [k \in 1..Len(products_batch) |-> BatchFailure(products_batch[k])]
  /\ batch_start' = batch_start + batch_size
  /\ pc' = NextPc(batch_start)
  /\ UNCHANGED << call, config, products_batch, batch_patterns, batch_results, idx, locals,
                  final_results, returned, error, gen_calls, agent_calls >>

BatchSizes == 1..MaxBatchSize

Next ==
  \/ /\ pc = "idle"
     /\ \E df \in SeqsUpTo(InputRows, MaxRows), size \in BatchSizes,
           enable \in BOOLEAN : Configure(df, size, enable)
  \/ ProcesarLote
  \/ PrepareBatch
  \/ \E why \in {"transport", "not_json", "not_list"} : GenerationFails(why)
  \/ /\ pc = "generate"
     /\ \E arr \in SeqsUpTo(EngineElements, Len(products_batch) + 1) :
           GenerationReturns(arr)
  \/ NormalizeRecord
  \/ QuickCheck
  \/ ValidatePassed
  \/ ValidateRulesOnly
  \/ \E reply \in AgentReplies : ValidateWithAgent(reply)
  \/ AppendResult
  \/ CollectResults

Spec == Init /\ [][Next]_vars

(***************************************************************************)
(* The helpers applied on their own                                        *)
(***************************************************************************)
\* The variables of the batch run
run ==
  << pc, config, outer, products_batch, batch_patterns, batch_results, idx, locals,
     final_results, returned, error, gen_calls, agent_calls >>

\* A helper about to be applied to args
Pending(fn, args) == [fn |-> fn, args |-> args, done |-> FALSE, out |-> <<>>]

\* "Bombas Perifericas Sumergibles"
T_BombasMixtas ==
  <<"B","o","m","b","a","s"," ","P","e","r","i","f","e","r","i","c","a","s"," ","S","u","m","e","r","g","i","b","l","e","s">>

\* "PERIFERICAS"
T_PERIFERICAS ==
  <<"P","E","R","I","F","E","R","I","C","A","S">>

\* "sumergibles"
T_sumergibles ==
  <<"s","u","m","e","r","g","i","b","l","e","s">>

\* "(01)"
T_Code01 ==
  <<"(","0","1",")">>

\* A second nomenclature sheet: a category that holds the words of two others
\* comes first, and one category appears twice
nomenclature_alt ==
  << [Departamento |-> T_PlomeriaCode, Familia |-> T_Bombas,
      Categoria |-> T_BombasMixtas, Nomenclatura |-> T_PatternPeriferica],
     nomenclature_df[1],
     nomenclature_df[2],
     [nomenclature_df[1] EXCEPT !.Nomenclatura = T_PatternCinta],
     nomenclature_df[3] >>

\* A third sheet: the first row shares only the family, and a candidate
\* that is not the first one has a category that is only a code
nomenclature_codes ==
  << [Departamento |-> T_Ferreteria, Familia |-> T_Bombas,
      Categoria |-> T_BombasSumergibles, Nomenclatura |-> T_PatternCinta],
     nomenclature_df[2],
     [nomenclature_df[1] EXCEPT !.Categoria = T_Code01],
     nomenclature_df[1] >>

RuleSheets == { nomenclature_df, nomenclature_alt, nomenclature_codes }

QueryDepartments == { T_PLOMERIA, T_PlomeriaCode, T_Jardin }

QueryFamilies == { T_bombas, T_Cintas }

CategoryWords == { T_Bombas, T_PERIFERICAS, T_sumergibles, T_Code01, T_Riego }

\* Most words of a category query
MaxWords == 3

\* The texts of at most n of the words, joined by one blank
TextsOf(words, n) == { join(q) : q \in SeqsUpTo(words, n) }

PatternQueries ==
  { Pending("find_pattern_row", <<df, dept, fam, cat>>) :
      df \in RuleSheets, dept \in QueryDepartments, fam \in QueryFamilies,
      cat \in TextsOf(CategoryWords, MaxWords) }

\* "TUBO."
T_TuboDot ==
  <<"T","U","B","O",".">>

\* "(VALVULA),"
T_ValvulaParen ==
  <<"(","V","A","L","V","U","L","A",")",",">>

\* "PLG"
T_PLG ==
  <<"P","L","G">>

\* "para hogar"
T_ParaHogar ==
  <<"p","a","r","a"," ","h","o","g","a","r">>

\* "para plomería"
T_ParaPlomeria ==
  <<"p","a","r","a"," ","p","l","o","m","e","r","í","a">>

\* "1/2HP"
T_MedioHP ==
  <<"1","/","2","H","P">>

\* "VALVULA PVC 1/2 PLG"
T_ValvulaShout ==
  <<"V","A","L","V","U","L","A"," ","P","V","C"," ","1","/","2"," ","P","L","G">>

\* "Valvula PVC 1/2 PLG"
T_ValvulaDoc ==
  <<"V","a","l","v","u","l","a"," ","P","V","C"," ","1","/","2"," ","P","L","G">>

\* Words and phrases of generated titles
TitleWords ==
  { T_TuboDot, T_ValvulaParen, T_PVC, T_PLG, T_ParaHogar, T_ParaPlomeria,
    T_sumergibles, T_MedioHP }

TitleTexts == TextsOf(TitleWords, MaxWords) \cup { T_ValvulaShout }

PipelineInputs ==
  { Pending("pipeline", <<t, SessionMemory, <<>> >>) : t \in TitleTexts }

DeShoutInputs == { Pending("de_shout", <<t>>) : t \in TitleTexts }

\* "CINTA P/SELLADO 1/2 plg"
T_OrigSellado ==
  <<"C","I","N","T","A"," ","P","/","S","E","L","L","A","D","O"," ","1","/","2"," ","p","l","g">>

\* "BOMBA para agua sucia 3 Hp"
T_OrigPara ==
  <<"B","O","M","B","A"," ","p","a","r","a"," ","a","g","u","a"," ","s","u","c","i","a"," ","3"," ","H","p">>

\* "Bomba"
T_Bomba ==
  <<"B","o","m","b","a">>

\* "para Agua Sucia"
T_ParaAguaSucia ==
  <<"p","a","r","a"," ","A","g","u","a"," ","S","u","c","i","a">>

\* "para sellado"
T_ParaSellado ==
  <<"p","a","r","a"," ","s","e","l","l","a","d","o">>

\* "1 1/2 HP"
T_MedidaEspacio ==
  <<"1"," ","1","/","2"," ","H","P">>

\* "1 1/2HP"
T_MedidaJunta ==
  <<"1"," ","1","/","2","H","P">>

\* "hidráulico"
T_Hidraulico ==
  <<"h","i","d","r","á","u","l","i","c","o">>

\* "1/2 plg"
T_MedioPlg ==
  <<"1","/","2"," ","p","l","g">>

\* Original titles of the ERP
OriginalTitles == { <<>>, T_OrigBomba, T_OrigSellado, T_OrigPara, T_OrigManguera }

\* Words and phrases of generated SEO titles
SeoWords ==
  { T_Bomba, T_ParaAguaSucia, T_ParaSellado, T_MedidaEspacio, T_MedidaJunta,
    T_Hidraulico, T_MedioPlg }

ValidationInputs ==
  { Pending("quick_validation_rules", <<o, g>>) :
      o \in OriginalTitles, g \in TextsOf(SeoWords, MaxWords) }

\* "Truper"
T_Truper ==
  <<"T","r","u","p","e","r">>

\* "BOMBA TRUPER SUMERGIBLE 1/2 HP"
T_SistemaBrand ==
  <<"B","O","M","B","A"," ","T","R","U","P","E","R"," ","S","U","M","E","R","G","I","B","L","E"," ","1","/","2"," ","H","P">>

\* "Bomba Truper sumergible 1/2 HP"
T_SeoBrand ==
  <<"B","o","m","b","a"," ","T","r","u","p","e","r"," ","s","u","m","e","r","g","i","b","l","e"," ","1","/","2"," ","H","P">>

\* generate_titles returns None
NoTitles ==
  [kind |-> "none", titulo_sistema |-> Absent, titulo_etiqueta |-> Absent,
   titulo_seo |-> Absent]

\* app.py lines 264-270: the three steps and the tidy of spaces
PostProcess(t, transformations, brand) ==
  collapse_whitespace(
    de_shout(remove_brand_occurrences(apply_transformations(t, transformations), brand)))

\* app.py lines 255-273, from the parsed response on.  The loop over the
\* three keys only binds t; the steps after it run once, on the last text
\* bound, and are stored under the last key of the loop, titulo_seo.  With no
\* text bound, t is unbound: the NameError is caught and None is returned.
generate_titles(response, transformations, brand) ==
  LET IsText(j) == response.kind = "object" /\ j.t = "str"
      bound == IsText(response.titulo_sistema) \/ IsText(response.titulo_etiqueta)
                 \/ IsText(response.titulo_seo)
      t == IF IsText(response.titulo_seo) THEN response.titulo_seo.v
           ELSE IF IsText(response.titulo_etiqueta) THEN response.titulo_etiqueta.v
           ELSE response.titulo_sistema.v
  IN IF ~bound THEN NoTitles
     ELSE [response EXCEPT !.titulo_seo = Str(PostProcess(t, transformations, brand))]

\* Responses of the engine to one product of app.py
Responses ==
  { TripleObject(a, b, c) :
      a \in { Str(T_SistemaLong), Str(T_SistemaBrand), Absent },
      b \in { Str(T_EtiquetaLong), Str(T_ValvulaShout), Absent, Num },
      c \in { Str(T_SeoOk), Str(T_SeoBrand), Str(T_ValvulaShout), Absent } }
  \cup { EngineNonObject }

GenerateInputs ==
  { Pending("generate_titles", <<r, SessionMemory, brand>>) :
      r \in Responses, brand \in { <<>>, T_Truper } }

HelperInit ==
  /\ SessionInit
  /\ call \in PatternQueries \cup PipelineInputs \cup DeShoutInputs
                \cup ValidationInputs \cup GenerateInputs

\* Lines 163-198
ApplyFindPatternRow ==
  /\ call.fn = "find_pattern_row"
  /\ ~call.done
  /\ call' = [call EXCEPT
                !.done = TRUE,
                !.out = find_pattern_row(call.args[1], call.args[2], call.args[3],
                                         call.args[4])]
  /\ UNCHANGED run

\* Lines 525-545: the six steps on one text
ApplyPipeline ==
  /\ call.fn = "pipeline"
  /\ ~call.done
  /\ call' = [call EXCEPT
                !.done = TRUE,
                !.out = NormalizeTitle(call.args[1], call.args[2], call.args[3])]
  /\ UNCHANGED run

\* Lines 83-103
ApplyDeShout ==
  /\ call.fn = "de_shout"
  /\ ~call.done
  /\ call' = [call EXCEPT !.done = TRUE, !.out = de_shout(call.args[1])]
  /\ UNCHANGED run

\* Lines 267-327
ApplyQuickValidation ==
  /\ call.fn = "quick_validation_rules"
  /\ ~call.done
  /\ call' = [call EXCEPT
                !.done = TRUE,
                !.out = quick_validation_rules(call.args[1], call.args[2])]
  /\ UNCHANGED run

\* app.py lines 255-273
ApplyGenerateTitles ==
  /\ call.fn = "generate_titles"
  /\ ~call.done
  /\ call' = [call EXCEPT
                !.done = TRUE,
                !.out = generate_titles(call.args[1], call.args[2], call.args[3])]
  /\ UNCHANGED run

HelperNext ==
  \/ ApplyFindPatternRow
  \/ ApplyPipeline
  \/ ApplyDeShout
  \/ ApplyQuickValidation
  \/ ApplyGenerateTitles

HelperSpec == HelperInit /\ [][HelperNext]_vars

(***************************************************************************)
(* Properties                                                              *)
(***************************************************************************)
\* The prompt's "max 40 caracteres" and "max 36 caracteres"
SystemTitleMax == 40

LabelTitleMax == 36

ResultRows == { results[k].row : k \in DOMAIN results }

FailedRows == { failed_products[k].row : k \in DOMAIN failed_products }

CallRows(c) == Range(c.rows)

GenerationErrors == {"transport", "not_json", "not_list"}

\* The record being validated went through the correction call
AgentBranch ==
  pc = "validated" /\ quick_issues # <<>> /\ enable_ai_validation

\* The raw triple and the normalized fields of the record being processed
RawTriple == batch_results[idx]

NormalizedSeo == NormalizeField(RawTriple.titulo_seo, <<>>)

\* C1: at the end of a run, for every generation call that returned an array
\* whose length differs from the number of records sent, no record of that
\* batch is in the results and every record of that batch is in the failed
\* list.
C1_CountMismatchFailsBatch ==
  pc = "done" =>
    \A k \in DOMAIN gen_calls :
      (gen_calls[k].response = "array" /\ gen_calls[k].length # Len(gen_calls[k].rows))
        => /\ CallRows(gen_calls[k]) \cap ResultRows = {}
           /\ CallRows(gen_calls[k]) \subseteq FailedRows

\* C2: at the end of a run, every record sent in a generation call that
\* failed (transport error, non-JSON text, JSON that is no array) is in the
\* failed list.
C2_GenerationFailureReported ==
  pc = "done" =>
    \A k \in DOMAIN gen_calls :
      gen_calls[k].response \in GenerationErrors
        => CallRows(gen_calls[k]) \subseteq FailedRows

\* C3: every emitted result has a system title of at most 40 characters and
\* a label title of at most 36 characters.
C3_TitleLengthLimits ==
  \A k \in DOMAIN results :
    /\ results[k].titulo_sistema_generado.t = "str"
         => Len(results[k].titulo_sistema_generado.v) <= SystemTitleMax
    /\ results[k].titulo_etiqueta.t = "str"
         => Len(results[k].titulo_etiqueta.v) <= LabelTitleMax

\* C4: quick issues, AI validation enabled, and a correction result whose
\* is_valid is false: the SEO title is the result's corrected_title and the
\* metadata is ai_validated / corrected / corrected = true.
C4_InvalidIsCorrected ==
  (AgentBranch /\ ai_validation.is_valid = JFalse)
    => /\ ai_validation.corrected_title.t # "absent"
            => result.titulo_seo = ai_validation.corrected_title
       /\ result.validation.validation_method = "ai_validated"
       /\ result.validation.validation_status = "corrected"
       /\ result.validation.corrected = TRUE

C4_Witness ==
  /\ AgentBranch
  /\ ai_validation.is_valid = JFalse
  /\ ai_validation.corrected_title = Str(T_Corrected)
  /\ generated_seo # Str(T_Corrected)
  /\ result.titulo_seo = Str(T_Corrected)

\* C5: no quick issue: the metadata is none / passed / no issues /
\* corrected = false and the SEO title is the normalized generated one.
C5_NoIssuesPassed ==
  (pc = "validated" /\ quick_issues = <<>>)
    => /\ result.validation = Metadata("none", "passed", <<>>, FALSE)
       /\ result.titulo_seo = NormalizedSeo

C5_Witness ==
  /\ pc = "validated"
  /\ quick_issues = <<>>
  /\ result.titulo_seo.t = "str"
  /\ result.titulo_seo # RawTriple.titulo_seo

\* C6: every correction call was made from the quick-checked position with
\* at least one quick issue and with AI validation enabled, and no record
\* has two correction calls.
C6_AgentCallGated ==
  /\ \A k \in DOMAIN agent_calls :
       /\ agent_calls[k].at = "quick_checked"
       /\ agent_calls[k].issues # <<>>
       /\ agent_calls[k].enabled
  /\ \A j, k \in DOMAIN agent_calls :
       agent_calls[j].row = agent_calls[k].row => j = k

C6_Witness ==
  /\ pc = "done"
  /\ Len(agent_calls) = 1
  /\ Len(results) = 2
  /\ \E k \in DOMAIN results : results[k].validation_status = "passed"

\* C7: quick issues, AI validation enabled, and a correction result whose
\* is_valid is true: the SEO title stays the normalized generated text, the
\* status is passed_with_warnings, corrected is false and the issues contain
\* every quick issue.
C7_ValidKeepsText ==
  (AgentBranch /\ ai_validation.is_valid = JTrue)
    => /\ result.titulo_seo = NormalizedSeo
       /\ result.validation.validation_status = "passed_with_warnings"
       /\ result.validation.corrected = FALSE
       /\ \A k \in DOMAIN quick_issues :
            quick_issues[k] \in Range(result.validation.issues_found)

C7_Witness ==
  /\ AgentBranch
  /\ ai_validation.is_valid = JTrue
  /\ ai_validation.corrected_title # result.titulo_seo

\* C8: quick issues with AI validation disabled: no correction call, the
\* three titles are the normalized ones, and the metadata is rules_only /
\* warnings / the quick issues / corrected = false.
C8_RulesOnly ==
  (pc = "validated" /\ quick_issues # <<>> /\ ~enable_ai_validation)
    => /\ agent_calls = <<>>
       /\ result.titulo_sistema = NormalizeField(RawTriple.titulo_sistema, <<>>)
       /\ result.titulo_etiqueta = NormalizeField(RawTriple.titulo_etiqueta, <<>>)
       /\ result.titulo_seo = NormalizedSeo
       /\ result.validation = Metadata("rules_only", "warnings", quick_issues, FALSE)

C8_Witness ==
  /\ pc = "validated"
  /\ quick_issues # <<>>
  /\ ~enable_ai_validation
  /\ Len(final_results) >= 1

\* The correction call of the record being processed failed
CorrectionCallFailed ==
  /\ agent_calls # <<>>
  /\ agent_calls[Len(agent_calls)].row = products_batch[idx].row
  /\ ai_validation.issues_found.t = "list"
  /\ ValidationError \in Range(ai_validation.issues_found.v)

\* C9: when the correction call fails, the record is not aborted: its SEO
\* title is the normalized generated one, the error is among its issues, and
\* the results gathered so far for its batch are kept.
C9_CorrectionFailureDegrades ==
  /\ (pc = "validated" /\ CorrectionCallFailed)
       => /\ result.titulo_seo = NormalizedSeo
          /\ ValidationError \in Range(result.validation.issues_found)
          /\ Len(final_results) = idx - 1
  /\ (pc = "collect" /\ error = "agent_reply") => ~CorrectionCallFailed

C9_Witness ==
  /\ pc = "collect"
  /\ error = "none"
  /\ Len(returned) = 2
  /\ ValidationError \in Range(returned[1].validation.issues_found)

\* C10: a correction reply that is no object, or whose issues_found is no
\* list, leaves the other records of the batch emitted.
C10_BadReplyAffectsOneRecord ==
  (pc = "collect" /\ error = "agent_reply")
    => \A k \in DOMAIN final_results : k \in DOMAIN returned

\* C11: the quick check and the validation step (every branch) leave the
\* record's system title and label title as normalization produced them.
C11_ValidationKeepsTitles ==
  [][ (pc \in {"generated", "quick_checked"})
        => (/\ result'.titulo_sistema = result.titulo_sistema
            /\ result'.titulo_etiqueta = result.titulo_etiqueta) ]_vars

C11_Witness ==
  /\ AgentBranch
  /\ IsInvalid(ai_validation)
  /\ result.titulo_seo # generated_seo
  /\ result.titulo_sistema.t = "str"
  /\ result.titulo_etiqueta.t = "str"
  /\ result.titulo_sistema = NormalizeField(RawTriple.titulo_sistema, <<>>)

\* The slice (0-based) a row of the file belongs to
SliceOf(i) == (i - 1) \div batch_size

\* C12: a row for which find_pattern_row returns None is in no generation
\* call, and at the end of the run it is in the failed list with the reason
\* 'No matching nomenclature rule'; every generation call carries at least
\* one row, all of one slice, so an all-uncovered slice issues no call.
C12_UncoveredNeverGenerated ==
  /\ \A i \in DOMAIN batch_df :
       PatternOf(batch_df[i]) = 0
         => /\ \A k \in DOMAIN gen_calls : i \notin CallRows(gen_calls[k])
            /\ pc = "done"
                 => \E k \in DOMAIN failed_products :
                       /\ failed_products[k].row = i
                       /\ failed_products[k].reason = "No matching nomenclature rule"
  /\ \A k \in DOMAIN gen_calls :
       /\ gen_calls[k].rows # <<>>
       /\ \A r1, r2 \in CallRows(gen_calls[k]) : SliceOf(r1) = SliceOf(r2)
       /\ \A j \in DOMAIN gen_calls :
            SliceOf(gen_calls[j].rows[1]) = SliceOf(gen_calls[k].rows[1]) => j = k

C12_Witness ==
  /\ pc = "done"
  /\ batch_size = 1
  /\ Len(batch_df) = 2
  /\ PatternOf(batch_df[1]) = 0
  /\ PatternOf(batch_df[2]) # 0
  /\ Len(gen_calls) = 1
  /\ Len(failed_products) = 1
  /\ failed_products[1].row = 1

\* The pattern find_pattern_row resolves for row i of the file (<<>> if none)
ResolvedPattern(i) ==
  IF PatternOf(batch_df[i]) = 0 THEN <<>>
  ELSE nomenclature_df[PatternOf(batch_df[i])].Nomenclatura

\* C13: every generation call carries at most batch_size records, and the
\* resolved pattern of every record it carries is the pattern sent with it.
C13_CallPatternMatchesRecords ==
  \A k \in DOMAIN gen_calls :
    /\ Len(gen_calls[k].rows) <= batch_size
    /\ \A r \in CallRows(gen_calls[k]) :
         /\ PatternOf(batch_df[r]) # 0
         /\ ResolvedPattern(r) = gen_calls[k].pattern

\* C14: at the end of a run the statistics give the counts of the run:
\* total_processed the emitted results, validation_passed the results with
\* status passed, validation_corrected the results with corrected = true,
\* validation_failed the records reported as failed.
C14_StatsMatchRun ==
  pc = "done"
    => /\ validation_stats.total_processed = Len(results)
       /\ validation_stats.validation_passed =
            Cardinality({ k \in DOMAIN results : results[k].validation_status = "passed" })
       /\ validation_stats.validation_corrected =
            Cardinality({ k \in DOMAIN results : results[k].corrected })
       /\ validation_stats.validation_failed = Len(failed_products)

\* The finished application of find_pattern_row and its arguments
Matched == call.fn = "find_pattern_row" /\ call.done

SameTaxonomy(df, r, dept, fam) ==
  /\ normalize_tax_value(df[r].Departamento) = normalize_tax_value(dept)
  /\ normalize_tax_value(df[r].Familia) = normalize_tax_value(fam)

SameCategory(df, r, cat) ==
  normalize_tax_value(df[r].Categoria) = normalize_tax_value(cat)

Overlap(df, r, cat) ==
  Cardinality(WordSet(normalize_tax_value(cat))
                \cap WordSet(normalize_tax_value(df[r].Categoria)))

\* The rows that share the query's normalized department and family
QueryCandidates ==
  { r \in DOMAIN call.args[1] : SameTaxonomy(call.args[1], r, call.args[2], call.args[3]) }

\* and among them those with the query's normalized category
QueryExact ==
  { r \in QueryCandidates : SameCategory(call.args[1], r, call.args[4]) }

\* C15: find_pattern_row returns None when no rule row has both its
\* normalized department and its normalized family equal to the query's,
\* whatever the category; normalization removes parenthesized codes, trims
\* and upper-cases.
C15_NoCandidateIsNone ==
  /\ normalize_tax_value(T_PlomeriaCode) = T_PLOMERIA
  /\ Matched => (QueryCandidates = {} => call.out = 0)

C15_Witness ==
  /\ Matched
  /\ call.out = 0
  /\ call.args[4] # <<>>
  /\ \E r \in DOMAIN call.args[1] :
        /\ normalize_tax_value(call.args[1][r].Departamento) = normalize_tax_value(call.args[2])
        /\ normalize_tax_value(call.args[1][r].Familia) # normalize_tax_value(call.args[3])

\* C16: when a candidate has the query's normalized category, the first
\* such row in row order is returned.
C16_ExactMatchFirst ==
  (Matched /\ QueryExact # {})
    => /\ call.out \in QueryExact
       /\ \A q \in QueryExact : call.out <= q

C16_Witness ==
  /\ Matched
  /\ Cardinality(QueryExact) = 2
  /\ call.out \in QueryExact
  /\ \E r \in QueryCandidates :
        /\ r < call.out
        /\ Overlap(call.args[1], r, call.args[4])
             = Overlap(call.args[1], call.out, call.args[4])

\* C17: candidates exist, none has the query's category and the query
\* category has a word: the returned row is a candidate whose word overlap
\* with the query is the largest among the candidates, also when that is 0.
C17_BestOverlap ==
  (/\ Matched
   /\ QueryCandidates # {}
   /\ QueryExact = {}
   /\ WordSet(normalize_tax_value(call.args[4])) # {})
    => /\ call.out \in QueryCandidates
       /\ \A q \in QueryCandidates :
            Overlap(call.args[1], q, call.args[4])
              <= Overlap(call.args[1], call.out, call.args[4])

C17_Witness ==
  /\ Matched
  /\ QueryExact = {}
  /\ call.out \in QueryCandidates
  /\ \E r \in QueryCandidates :
        /\ r < call.out
        /\ Overlap(call.args[1], r, call.args[4])
             < Overlap(call.args[1], call.out, call.args[4])

\* C18: the normalizer pipeline applied to its own output, with the same
\* transformation memory and brand, changes nothing.
C18_PipelineIdempotent ==
  (call.fn = "pipeline" /\ call.done)
    => NormalizeTitle(call.out, call.args[2], call.args[3]) = call.out

\* What C19 says de_shout makes of one token: the leading punctuation, the
\* capitalized core and the trailing punctuation when the core is upper-case,
\* longer than one character and no allowed acronym, else the token itself
AffixPreserving(w) ==
  LET left == lstrip(w, StripChars)
      core == rstrip(left, StripChars)
      lead == SubSeq(w, 1, Len(w) - Len(left))
      trail == Drop(w, Len(w) - (Len(left) - Len(core)) + 1)
  IN IF Len(core) > 1 /\ isupper(core) /\ core \notin ACRONYMS_OK
     THEN lead \o _cap_first(core) \o trail
     ELSE w

\* C19: de_shout maps every token as AffixPreserving does.
C19_DeShoutKeepsAffixes ==
  (call.fn = "de_shout" /\ call.done)
    => LET ws == split(call.args[1])
       IN call.out = join([k \in 1..Len(ws) |-> AffixPreserving(ws[k])])

\* C20: de_shout("VALVULA PVC 1/2 PLG") returns "Valvula PVC 1/2 PLG".
C20_DeShoutExample ==
  (call.fn = "de_shout" /\ call.done /\ call.args[1] = T_ValvulaShout)
    => call.out = T_ValvulaDoc

\* The finished application of quick_validation_rules
Validated == call.fn = "quick_validation_rules" /\ call.done

\* C21: every measurement token of the original that, with Hp/hp written
\* HP, does not appear verbatim in the generated title (same normalization)
\* is reported as a missing measurement, for every generated title, the
\* empty one included.
C21_MissingMeasureReported ==
  Validated
    => \A m \in Range(FindMeasures(call.args[1], 1)) :
          ~Contains(NormalizeHp(call.args[2]), NormalizeHp(m))
            => Issue("missing_measure", m, <<>>) \in Range(call.out)

IsInk(c) == ~IsSpace(c)

\* A text with Hp/hp written HP and its blanks removed
Squeezed(s) == SelectSeq(NormalizeHp(s), IsInk)

\* The generated title holds no forbidden term that the original lacks
NoInventedTerm(original, generated) ==
  \A k \in DOMAIN FORBIDDEN_TECH_TERMS :
     Contains(lower(generated), lower(FORBIDDEN_TECH_TERMS[k]))
       => Contains(lower(original), lower(FORBIDDEN_TECH_TERMS[k]))

\* The generated title holds no suspect 'para X' phrase that the original lacks
NoAddedPara(original, generated) ==
  \A k \in DOMAIN problematic_para :
     Contains(lower(generated), problematic_para[k])
       => Contains(lower(original), problematic_para[k])

\* Every measurement of the original is in the generated title, whatever
\* the blanks between the number and the unit
MeasuresKept(original, generated) ==
  \A m \in Range(FindMeasures(original, 1)) :
     Contains(Squeezed(generated), Squeezed(m))

\* C22: a generated title with no forbidden term absent from the original,
\* no suspect 'para X' phrase absent from the original and every measurement
\* of the original (original '1/2HP' rendered '1/2 HP' included) gets no issue.
C22_CleanTitlePasses ==
  (/\ Validated
   /\ NoInventedTerm(call.args[1], call.args[2])
   /\ NoAddedPara(call.args[1], call.args[2])
   /\ MeasuresKept(call.args[1], call.args[2]))
    => call.out = <<>>

\* The abbreviations of a phrase that carry the "P/" prefix, and the others
PrefixedForms(phrase) ==
  { abbrev_map(phrase)[k] : k \in { j \in DOMAIN abbrev_map(phrase) :
                                       SubSeq(abbrev_map(phrase)[j], 1, 2) = <<"P", "/">> } }

BareForms(phrase) ==
  { abbrev_map(phrase)[k] : k \in { j \in DOMAIN abbrev_map(phrase) :
                                       abbrev_map(phrase)[j][1] # "P" } }

ParaFlagged(phrase) ==
  \E k \in DOMAIN call.out :
     call.out[k].kind = "incorrect_para" /\ call.out[k].a = phrase

\* C23: for a phrase with a known abbreviation that is in the generated
\* title, a "P/"-prefixed form in the original gives no "Incorrectly added
\* 'para'" issue, and a bare abbreviation in an original without the
\* phrase and without a "P/" form gives it.
C23_ParaWithAbbreviation ==
  Validated
    => \A phrase \in { T_para_agua_sucia, T_para_agua_limpia, T_para_sellado } :
          Contains(lower(call.args[2]), phrase)
            => /\ (\E a \in PrefixedForms(phrase) : Contains(upper(call.args[1]), a))
                    => ~ParaFlagged(phrase)
               /\ (/\ \E a \in BareForms(phrase) : Contains(upper(call.args[1]), a)
                   /\ ~Contains(upper(call.args[1]), <<"P", "/">>)
                   /\ ~Contains(lower(call.args[1]), phrase))
                    => ParaFlagged(phrase)

\* The earliest candidate of the finished query
FirstCandidate == CHOOSE r \in QueryCandidates : \A q \in QueryCandidates : r <= q

\* The query's category normalizes to the empty string
EmptyCategory == normalize_tax_value(call.args[4]) = <<>>

\* C24 as stated: candidates exist and the query category normalizes to the
\* empty string: the first candidate is returned, whatever the candidates'
\* categories.
C24_EmptyCategoryFirstCandidate ==
  (Matched /\ QueryCandidates # {} /\ EmptyCategory) => call.out = FirstCandidate

\* C24 amended: ... and no candidate's category normalizes to the empty
\* string: the first candidate is returned; when one does, the first such
\* candidate is returned.
C24_EmptyCategoryAmended ==
  (Matched /\ QueryCandidates # {} /\ EmptyCategory)
    => IF QueryExact = {} THEN call.out = FirstCandidate
       ELSE call.out \in QueryExact /\ \A q \in QueryExact : call.out <= q

C24_Witness ==
  /\ Matched
  /\ EmptyCategory
  /\ call.args[4] # <<>>
  /\ QueryExact = {}
  /\ Cardinality(QueryCandidates) >= 2
  /\ call.out = FirstCandidate

\* The queries of the input set with the normalized triple of the finished one
SameTriple ==
  { <<d, f, c>> \in
      { d \in QueryDepartments :
          normalize_tax_value(d) = normalize_tax_value(call.args[2]) }
      \X { f \in QueryFamilies :
             normalize_tax_value(f) = normalize_tax_value(call.args[3]) }
      \X { c \in TextsOf(CategoryWords, MaxWords) :
             normalize_tax_value(c) = normalize_tax_value(call.args[4]) } : TRUE }

\* The candidates of largest word overlap with the query
BestCandidates ==
  { r \in QueryCandidates :
      \A q \in QueryCandidates :
         Overlap(call.args[1], q, call.args[4]) <= Overlap(call.args[1], r, call.args[4]) }

\* C25: on one rule set, every query with the same normalized department,
\* family and category returns the same row, and when no candidate has the
\* query's category the earliest candidate of largest overlap is returned.
C25_Deterministic ==
  Matched
    => /\ \A q \in SameTriple :
            find_pattern_row(call.args[1], q[1], q[2], q[3]) = call.out
       /\ (QueryCandidates # {} /\ QueryExact = {}
              /\ WordSet(normalize_tax_value(call.args[4])) # {})
            => /\ call.out \in BestCandidates
               /\ \A r \in BestCandidates : call.out <= r

C25_Witness ==
  /\ Matched
  /\ QueryExact = {}
  /\ Cardinality(BestCandidates) >= 2
  /\ Cardinality(SameTriple) >= 2
  /\ Overlap(call.args[1], call.out, call.args[4]) > 0
  /\ \E r \in BestCandidates : call.out < r

Generated == call.fn = "generate_titles" /\ call.done

TitleKeys == { "titulo_sistema", "titulo_etiqueta", "titulo_seo" }

\* C27: generate_titles of app.py returns a response that is an object with
\* each of its titles replaced by its own text after apply_transformations,
\* remove_brand_occurrences and de_shout, and with the other fields as they
\* were, also when one of the three is lacking.
C27_GenerateTitlesPostProcessed ==
  (Generated /\ call.args[1].kind = "object")
    => /\ call.out.kind = "object"
       /\ \A key \in TitleKeys :
            call.out[key] =
              IF call.args[1][key].t = "str"
              THEN Str(PostProcess(call.args[1][key].v, call.args[2], call.args[3]))
              ELSE call.args[1][key]

\* The steps in the order the claim gives, each on the previous one's output
StepsInOrder(t) ==
  collapse_whitespace(
    remove_generic_para_phrases(
      remove_forbidden_terms(
        de_shout(
          remove_brand_occurrences(
            apply_transformations(t, transformation_memory),
            strip(products_batch[idx].marca))))))

FieldInOrder(j) == IF j.t = "str" THEN Str(StepsInOrder(j.v)) ELSE j

\* C26: each of the three fields of a returned triple is the raw field after
\* apply_transformations, remove_brand_occurrences, de_shout,
\* remove_forbidden_terms, remove_generic_para_phrases and the whitespace tidy,
\* in this order, and the quick check has run on the normalized SEO title.
C26_NormalizedInOrder ==
  /\ pc \in {"generated", "quick_checked"}
       => /\ result.titulo_sistema = FieldInOrder(RawTriple.titulo_sistema)
          /\ result.titulo_etiqueta = FieldInOrder(RawTriple.titulo_etiqueta)
          /\ result.titulo_seo = FieldInOrder(RawTriple.titulo_seo)
  /\ pc = "quick_checked"
       => LET original_title == products_batch[idx].titulo_sistema_existente
              seo == Get(FieldInOrder(RawTriple.titulo_seo), Str(<<>>))
          IN /\ generated_seo = seo
             /\ quick_issues =
                  IF original_title # <<>> /\ Truthy(seo)
                  THEN quick_validation_rules(original_title, seo.v)
                  ELSE <<>>

\* The quick check has passed a title that it would not have passed raw, and
\* the order of the last two removals has mattered
C26_Witness ==
  /\ pc = "quick_checked"
  /\ RawTriple = EngineGeneric
  /\ result.titulo_seo # RawTriple.titulo_seo
  /\ result.titulo_sistema # result.titulo_seo
  /\ quick_issues = <<>>
  /\ quick_validation_rules(products_batch[idx].titulo_sistema_existente,
                            RawTriple.titulo_seo.v) # <<>>
  /\ result.titulo_seo.v
       # collapse_whitespace(remove_forbidden_terms(remove_generic_para_phrases(
           de_shout(apply_transformations(RawTriple.titulo_seo.v, transformation_memory)))))

\* How often row i is in the results list and in the failed list
TimesReported(i) ==
  Cardinality({ k \in DOMAIN results : results[k].row = i })
    + Cardinality({ k \in DOMAIN failed_products : failed_products[k].row = i })

\* C28: at the end of a run every input row is exactly once in the union of
\* the results list and the failed list.
C28_EveryRowReportedOnce ==
  pc = "done" => \A i \in 1..Len(batch_df) : TimesReported(i) = 1

\* The four combinations of (method, status, some issue, corrected)
MetadataCombinations ==
  { <<"none", "passed", FALSE, FALSE>>,
    <<"rules_only", "warnings", TRUE, FALSE>>,
    <<"ai_validated", "passed_with_warnings", TRUE, FALSE>>,
    <<"ai_validated", "corrected", TRUE, TRUE>> }

\* C29: the metadata of every validated record is one of the four
\* combinations, and corrected is true only when the record's SEO title is a
\* title that a correction call that succeeded returned.
C29_ConsistentMetadata ==
  pc = "validated"
    => LET m == result.validation
       IN /\ << m.validation_method, m.validation_status, m.issues_found # <<>>,
                m.corrected >> \in MetadataCombinations
          /\ m.corrected
               => /\ AgentBranch
                  /\ ~CorrectionCallFailed
                  /\ ai_validation.corrected_title.t = "str"
                  /\ result.titulo_seo = ai_validation.corrected_title

\* No forbidden term is a whole word of t
NoForbiddenTerm(t) ==
  \A k \in DOMAIN FORBIDDEN_TECH_TERMS :
     WordSub(t, FORBIDDEN_TECH_TERMS[k], FALSE, <<>>) = t

\* t does not end with a generic 'para' phrase
NoGenericEnding(t) ==
  \A k \in DOMAIN GENERIC_PARA_PATTERNS :
     TailMatch(t, Len(t), GENERIC_PARA_PATTERNS[k], Len(GENERIC_PARA_PATTERNS[k])) < 0

\* C30: the SEO title of every validated record has no forbidden technical
\* term as a whole word and does not end with a generic 'para' phrase, in
\* every branch, the corrected one included.
C30_SeoTitleIsNormalized ==
  (pc = "validated" /\ result.titulo_seo.t = "str")
    => NoForbiddenTerm(result.titulo_seo.v) /\ NoGenericEnding(result.titulo_seo.v)

====
